---------------------------- MODULE Spec2Model ----------------------------
(***************************************************************************)
(* A model of terragen.c: Diamond-Square terrain generation, the min/max   *)
(* scan, the view fitting, the height classifier and the wireframe draw,   *)
(* driven by the main loop.                                                *)
(*                                                                         *)
(* Number representation.  A float height is kept as an integer count of   *)
(* 1/HEIGHT_UNIT; a float division or product is rounded to the nearest    *)
(* unit (FDiv).  Projected coordinates are integers in the unit            *)
(* 1/(TRIG_DEN * SIN_ISO_DEN * HEIGHT_UNIT); the view transform is kept    *)
(* as exact fractions [num, den] so that containment and tightness are     *)
(* decided without rounding.  A fraction with den = 0 is the result of a   *)
(* float division by zero (NaN when num = 0, an infinity otherwise).       *)
(***************************************************************************)
EXTENDS Integers, Sequences, FiniteSets

(* ------------------------------ bounds -------------------------------- *)

\* The grid is (2^GridExponent + 1) cells wide.
GridExponent == 2

\* The stream of rand() results repeats with this period.
RandPeriod == 4

\* The number of SPACE presses a run may see.
MaxRegens == 2

\* The number of equal parts the classifier sweep cuts [min, max] into.
SweepSteps == 20

\* The classifier sweep draws min and max from -ClassifyRange..ClassifyRange.
ClassifyRange == 3

(* ------------------------- program constants -------------------------- *)

RECURSIVE Pow2(_)
Pow2(n) == IF n = 0 THEN 1 ELSE 2 * Pow2(n - 1)

ITERATIONS == Pow2(GridExponent) + 1

\* Heights are counted in units of 1/HEIGHT_UNIT.
HEIGHT_UNIT == 16

INITIAL_HEIGHT == 50

\* powf(2.0f, -ROUGHNESS) with ROUGHNESS = 1.20 is 0.4353; kept as 7/16.
DECAY_NUM == 7
DECAY_DEN == 16

SCREEN_MARGIN == 50
SCREEN_WIDTH == 800
SCREEN_HEIGHT == 700
UI_HEIGHT == 90

\* rand() returns 0..RAND_MAX.
RAND_MAX == 2

\* cosf and sinf of ROTATION_ANGLE = 45 degrees and sinf of ISO_ANGLE = 30
\* degrees: 71/100, 71/100 and 1/2.
TRIG_DEN == 100
COS_ROT == 71
SIN_ROT == 71
SIN_ISO_NUM == 1
SIN_ISO_DEN == 2

\* The 1e9 the bounding-box scan starts from.
FLT_BIG == 1000000000

Band == {"Snow", "Rock", "Grass", "Sand", "Water"}

Index == 0 .. (ITERATIONS - 1)
Cell == Index \X Index

(* ------------------------------ state --------------------------------- *)

VARIABLES
    terrain,        \* float terrain[ITERATIONS][ITERATIONS], terrain[x][y]
    min_height,     \* float min_height
    max_height,     \* float max_height
    render_scale,   \* float render_scale, a fraction of pixels per projected unit
    offset_x,       \* float offset_x, a fraction of pixels
    offset_y,       \* float offset_y, a fraction of pixels
    rand_stream,    \* the stream srand(time(NULL)) selected, one period of it
    rand_pos,       \* the position of the next rand() in the stream
    pc,             \* the position of main
    in_loop,        \* main is inside its while loop (the regeneration was asked by SPACE)
    regens,         \* the number of SPACE presses so far
    length,         \* generate_terrain: int length
    amplitude,      \* generate_terrain: float amplitude
    half,           \* generate_terrain: int half
    gx,             \* generate_terrain: the loop variable x
    gy,             \* generate_terrain: the loop variable y
    passes,         \* the number of passes of the while loop completed in this run
    writes,         \* the cells written by this run of generate_terrain, in order
    calls,          \* the functions main has called since the last frame
    segments,       \* the DrawLineV calls of the last draw_terrain_3d, in order
    nan_band,       \* the band the build gave a NaN normalized height in the last draw
    c_min,          \* classifier sweep: min_alt
    c_max,          \* classifier sweep: max_alt
    c_step,         \* classifier sweep: the elevation is min + c_step/SweepSteps of the range
    c_visited       \* classifier sweep: the bands returned so far, repeats dropped

genVars == <<length, amplitude, half, gx, gy, passes, writes>>
viewVars == <<render_scale, offset_x, offset_y>>
randVars == <<rand_stream, rand_pos>>
sweepVars == <<c_min, c_max, c_step, c_visited>>
vars == <<terrain, min_height, max_height, viewVars, randVars, pc, in_loop,
          regens, genVars, calls, segments, nan_band, sweepVars>>

(* --------------------------- float helpers ---------------------------- *)

\* a / b rounded to the nearest integer, halves up (b > 0).
FDiv(a, b) == (2 * a + b) \div (2 * b)

Abs(a) == IF a < 0 THEN -a ELSE a

(* ------------------------- generate_terrain --------------------------- *)

\* The rand() call of calculate_noise: the next value of the stream.
Rand == rand_stream[rand_pos]

\* ((float)rand() / (float)RAND_MAX * 2.0f - 1.0f) * amplitude
\* (a faulty variant: the division by RAND_MAX is lost)
calculate_noise_unscaled(amp, r) == (2 * r - 1) * amp
calculate_noise(amp, r) == FDiv((2 * r - RAND_MAX) * amp, RAND_MAX)

\* while (length > 1)
\* (a faulty variant: the loop is left one pass early)
LoopCondition_early(len) == len > 2
LoopCondition(len) == len > 1

\* x < ITERATIONS - 1 and y < ITERATIONS - 1 of the square loops
SquareInRange(i) == i < ITERATIONS - 1

\* x < ITERATIONS and y < ITERATIONS of the diamond loops
\* (a faulty variant: the bound of the square loops, used for the diamond loops)
DiamondInRange_short(i) == i < ITERATIONS - 1
DiamondInRange(i) == i < ITERATIONS

\* The sum of t over a sequence of cells, in the order they are read.
RECURSIVE SumAt(_, _)
SumAt(t, cells) ==
    IF cells = << >> THEN 0
    ELSE t[Head(cells)[1]][Head(cells)[2]] + SumAt(t, Tail(cells))

\* The cells the square step reads for the square at (x, y) of side len:
\* terrain[x][y], terrain[x + length][y], terrain[x][y + length] and
\* terrain[x + length][y + length].
\* (a faulty variant: the corners are taken at distance half, not length)
SquareReads_half(x, y, len) ==
    << <<x, y>>, <<x + len \div 2, y>>, <<x, y + len \div 2>>,
       <<x + len \div 2, y + len \div 2>> >>
SquareReads(x, y, len) ==
    << <<x, y>>, <<x + len, y>>, <<x, y + len>>, <<x + len, y + len>> >>

\* The average of the four corners of the square at (x, y) of side len.
SquareAverage(t, x, y, len) == FDiv(SumAt(t, SquareReads(x, y, len)), 4)

\* int y = (x + half) % length
\* (a faulty variant: every row starts at y = 0)
DiamondFirstY_all(x, h, len) == 0
DiamondFirstY(x, h, len) == (x + h) % len

\* The count of the diamond step: one for each neighbour test that passes.
\* (a faulty variant: the count is always 4)
DiamondCount_stale(x, y, h) == 4
DiamondCount(x, y, h) ==
      (IF x >= h THEN 1 ELSE 0)
    + (IF x + h < ITERATIONS THEN 1 ELSE 0)
    + (IF y >= h THEN 1 ELSE 0)
    + (IF y + h < ITERATIONS THEN 1 ELSE 0)

\* The cells the diamond step reads for the cell (x, y): one for each
\* neighbour test that passes, in the order of the tests.
DiamondReads(x, y, h) ==
       (IF x >= h THEN << <<x - h, y>> >> ELSE << >>)
    \o (IF x + h < ITERATIONS THEN << <<x + h, y>> >> ELSE << >>)
    \o (IF y >= h THEN << <<x, y - h>> >> ELSE << >>)
    \o (IF y + h < ITERATIONS THEN << <<x, y + h>> >> ELSE << >>)

\* The sum of the diamond step over the same tests.
DiamondSum(t, x, y, h) == SumAt(t, DiamondReads(x, y, h))

\* length /= 2
HalveLength(len) == len \div 2

\* amplitude *= powf(2.0f, -ROUGHNESS)
DecayAmplitude(amp) == FDiv(amp * DECAY_NUM, DECAY_DEN)

NextRand == rand_pos' = (rand_pos + 1) % RandPeriod /\ UNCHANGED rand_stream

\* reset_canvas_corners()
reset_canvas_corners ==
    /\ pc = "reset"
    /\ terrain' = [terrain EXCEPT ![0][0] = 0,
                                  ![0][ITERATIONS - 1] = 0,
                                  ![ITERATIONS - 1][0] = 0,
                                  ![ITERATIONS - 1][ITERATIONS - 1] = 0]
    /\ calls' = Append(calls, "reset_canvas_corners")
    /\ pc' = "generate"
    /\ UNCHANGED <<min_height, max_height, viewVars, randVars, in_loop, regens,
                   genVars, segments, nan_band, sweepVars>>

\* generate_terrain(): the declarations and the reset of min/max.
generate_terrain_enter ==
    /\ pc = "generate"
    /\ length' = ITERATIONS - 1
    /\ amplitude' = INITIAL_HEIGHT * HEIGHT_UNIT
    /\ min_height' = 0
    /\ max_height' = 0
    /\ passes' = 0
    /\ writes' = << >>
    /\ pc' = "while"
    /\ UNCHANGED <<terrain, viewVars, randVars, in_loop, regens, half, gx, gy,
                   calls, segments, nan_band, sweepVars>>

\* The test of the while loop: a new pass, or the return to main.
generate_terrain_while ==
    /\ pc = "while"
    /\ IF LoopCondition(length)
       THEN /\ half' = length \div 2
            /\ gx' = 0
            /\ gy' = 0
            /\ pc' = "square"
            /\ calls' = calls
       ELSE /\ pc' = "minmax"
            /\ calls' = Append(calls, "generate_terrain")
            /\ UNCHANGED <<half, gx, gy>>
    /\ UNCHANGED <<terrain, min_height, max_height, viewVars, randVars, in_loop,
                   regens, length, amplitude, passes, writes, segments, nan_band,
                   sweepVars>>

\* One iteration of the inner loop of the square step, and the loop headers
\* that follow it.
generate_terrain_square ==
    /\ pc = "square"
    /\ LET average == SquareAverage(terrain, gx, gy, length)
       IN  terrain' = [terrain EXCEPT ![gx + half][gy + half] =
                           average + calculate_noise(amplitude, Rand)]
    /\ NextRand
    /\ writes' = Append(writes, [phase |-> "square", step |-> length,
                                 x |-> gx + half, y |-> gy + half, count |-> 4,
                                 reads |-> SquareReads(gx, gy, length),
                                 noise |-> calculate_noise(amplitude, Rand)])
    /\ IF SquareInRange(gy + length)
       THEN gy' = gy + length /\ gx' = gx /\ pc' = "square"
       ELSE IF SquareInRange(gx + length)
            THEN gx' = gx + length /\ gy' = 0 /\ pc' = "square"
            ELSE gx' = 0 /\ gy' = DiamondFirstY(0, half, length) /\ pc' = "diamond"
    /\ UNCHANGED <<min_height, max_height, viewVars, in_loop, regens, length,
                   amplitude, half, passes, calls, segments, nan_band, sweepVars>>

\* One iteration of the inner loop of the diamond step, and the loop headers
\* that follow it.
generate_terrain_diamond ==
    /\ pc = "diamond"
    /\ LET sum == DiamondSum(terrain, gx, gy, half)
           count == DiamondCount(gx, gy, half)
       IN  /\ terrain' = [terrain EXCEPT ![gx][gy] =
                              FDiv(sum, count) + calculate_noise(amplitude, Rand)]
           /\ writes' = Append(writes, [phase |-> "diamond", step |-> length,
                                        x |-> gx, y |-> gy, count |-> count,
                                        reads |-> DiamondReads(gx, gy, half),
                                        noise |-> calculate_noise(amplitude, Rand)])
    /\ NextRand
    /\ IF DiamondInRange(gy + length)
       THEN gy' = gy + length /\ gx' = gx /\ pc' = "diamond"
       ELSE IF DiamondInRange(gx + half)
            THEN /\ gx' = gx + half
                 /\ gy' = DiamondFirstY(gx + half, half, length)
                 /\ pc' = "diamond"
            ELSE pc' = "pass_end" /\ UNCHANGED <<gx, gy>>
    /\ UNCHANGED <<min_height, max_height, viewVars, in_loop, regens, length,
                   amplitude, half, passes, calls, segments, nan_band, sweepVars>>

\* The end of a pass: length /= 2 and the decay of the amplitude.
generate_terrain_pass_end ==
    /\ pc = "pass_end"
    /\ length' = HalveLength(length)
    /\ amplitude' = DecayAmplitude(amplitude)
    /\ passes' = passes + 1
    /\ pc' = "while"
    /\ UNCHANGED <<terrain, min_height, max_height, viewVars, randVars, in_loop,
                   regens, half, gx, gy, writes, calls, segments, nan_band,
                   sweepVars>>

(* ---------------------- calculate_min_max_height ---------------------- *)

\* for (int x = 0; x < ITERATIONS; x++) and for (int y = 0; y < ITERATIONS; y++)
\* (a faulty variant: the last row and the last column are not scanned)
MinMaxInRange_short(i) == i < ITERATIONS - 1
MinMaxInRange(i) == i < ITERATIONS

\* The inner loop over y at row x, from the running minimum lo and maximum
\* hi: the two if statements on terrain[x][y].
RECURSIVE MinMaxRow(_, _, _, _, _)
MinMaxRow(t, x, y, lo, hi) ==
    IF ~MinMaxInRange(y) THEN [min |-> lo, max |-> hi]
    ELSE IF t[x][y] < lo
         THEN IF t[x][y] > hi
              THEN MinMaxRow(t, x, y + 1, t[x][y], t[x][y])
              ELSE MinMaxRow(t, x, y + 1, t[x][y], hi)
         ELSE IF t[x][y] > hi
              THEN MinMaxRow(t, x, y + 1, lo, t[x][y])
              ELSE MinMaxRow(t, x, y + 1, lo, hi)

\* The outer loop over x.
RECURSIVE MinMaxScan(_, _, _, _)
MinMaxScan(t, x, lo, hi) ==
    IF ~MinMaxInRange(x) THEN [min |-> lo, max |-> hi]
    ELSE LET r == MinMaxRow(t, x, 0, lo, hi)
         IN  MinMaxScan(t, x + 1, r.min, r.max)

calculate_min_max_height ==
    /\ pc = "minmax"
    /\ LET r == MinMaxScan(terrain, 0, terrain[0][0], terrain[0][0])
       IN  min_height' = r.min /\ max_height' = r.max
    /\ calls' = Append(calls, "calculate_min_max_height")
    /\ pc' = "view"
    /\ UNCHANGED <<terrain, viewVars, randVars, in_loop, regens, genVars,
                   segments, nan_band, sweepVars>>

(* ------------------------ isometric_projection ------------------------ *)

\* The projection of (x, y, z), x and y grid indices, z a height in height
\* units; the result is in units of 1/(TRIG_DEN * SIN_ISO_DEN * HEIGHT_UNIT).
isometric_projection(x, y, z) ==
    LET x_rot == x * COS_ROT - y * SIN_ROT
        y_rot == x * SIN_ROT + y * COS_ROT
    IN  [x |-> x_rot * SIN_ISO_DEN * HEIGHT_UNIT,
         y |-> y_rot * SIN_ISO_NUM * HEIGHT_UNIT - z * TRIG_DEN * SIN_ISO_DEN]

(* ---------------------- calculate_view_parameters --------------------- *)

\* a < b for fractions with den >= 0
FracLess(a, b) == a.num * b.den < b.num * a.den

fminf(a, b) == IF FracLess(b, a) THEN b ELSE a

\* The coordinate of the projected vertex (x, y) that a limit is taken of.
Projected(t, x, y, axis) ==
    LET p == isometric_projection(x, y, t[x][y])
    IN  IF axis = "x" THEN p.x ELSE p.y

\* The first pass, for one of the four limits: the inner loop over x at row
\* y and the outer loop over y, from the running limit.
RECURSIVE RowLow(_, _, _, _, _)
RowLow(t, x, y, axis, lo) ==
    IF x >= ITERATIONS THEN lo
    ELSE IF Projected(t, x, y, axis) < lo
         THEN RowLow(t, x + 1, y, axis, Projected(t, x, y, axis))
         ELSE RowLow(t, x + 1, y, axis, lo)

RECURSIVE ScanLow(_, _, _, _)
ScanLow(t, y, axis, lo) ==
    IF y >= ITERATIONS THEN lo
    ELSE ScanLow(t, y + 1, axis, RowLow(t, 0, y, axis, lo))

RECURSIVE RowHigh(_, _, _, _, _)
RowHigh(t, x, y, axis, hi) ==
    IF x >= ITERATIONS THEN hi
    ELSE IF Projected(t, x, y, axis) > hi
         THEN RowHigh(t, x + 1, y, axis, Projected(t, x, y, axis))
         ELSE RowHigh(t, x + 1, y, axis, hi)

RECURSIVE ScanHigh(_, _, _, _)
ScanHigh(t, y, axis, hi) ==
    IF y >= ITERATIONS THEN hi
    ELSE ScanHigh(t, y + 1, axis, RowHigh(t, 0, y, axis, hi))

\* The limits of the projected terrain after the first pass.
ViewLimits(t) ==
    [min_x |-> ScanLow(t, 0, "x", FLT_BIG), max_x |-> ScanHigh(t, 0, "x", -FLT_BIG),
     min_y |-> ScanLow(t, 0, "y", FLT_BIG), max_y |-> ScanHigh(t, 0, "y", -FLT_BIG)]

\* (SCREEN_HEIGHT - UI_HEIGHT - scaled_height) / 2.0f + UI_HEIGHT
\*     - (min_y * render_scale), over the denominator 2 * scale.den
OffsetY(scale, terrain_height, min_y) ==
    [num |-> (SCREEN_HEIGHT - UI_HEIGHT) * scale.den - terrain_height * scale.num
             + 2 * UI_HEIGHT * scale.den - 2 * min_y * scale.num,
     den |-> 2 * scale.den]

\* (SCREEN_WIDTH - scaled_width) / 2.0f - (min_x * render_scale), over the
\* denominator 2 * scale.den
OffsetX(scale, terrain_width, min_x) ==
    [num |-> SCREEN_WIDTH * scale.den - terrain_width * scale.num
             - 2 * min_x * scale.num,
     den |-> 2 * scale.den]

\* The values calculate_view_parameters leaves in render_scale, offset_x and
\* offset_y for the terrain t.
ViewParameters(t) ==
    LET b == ViewLimits(t)
        terrain_width == b.max_x - b.min_x
        terrain_height == b.max_y - b.min_y
        available_space_x == SCREEN_WIDTH - (2 * SCREEN_MARGIN)
        available_space_y == (SCREEN_HEIGHT - UI_HEIGHT) - (2 * SCREEN_MARGIN)
        scale_x == [num |-> available_space_x, den |-> terrain_width]
        scale_y == [num |-> available_space_y, den |-> terrain_height]
        scale == fminf(scale_x, scale_y)
    IN  [render_scale |-> scale,
         offset_x |-> OffsetX(scale, terrain_width, b.min_x),
         offset_y |-> OffsetY(scale, terrain_height, b.min_y)]

calculate_view_parameters ==
    /\ pc = "view"
    /\ LET v == ViewParameters(terrain)
       IN  /\ render_scale' = v.render_scale
           /\ offset_x' = v.offset_x
           /\ offset_y' = v.offset_y
    /\ calls' = Append(calls, "calculate_view_parameters")
    /\ pc' = IF in_loop THEN "draw" ELSE "loop_top"
    /\ UNCHANGED <<terrain, min_height, max_height, randVars, in_loop, regens,
                   genVars, segments, nan_band, sweepVars>>

(* ----------------------- calculate_height_color ----------------------- *)

\* (height - min_alt) / (max_alt - min_alt), the three in one unit
\* (a faulty variant: the height is measured down from max_alt)
calculate_normalized_height_inverted(height, max_alt, min_alt) ==
    [num |-> max_alt - height, den |-> max_alt - min_alt]
calculate_normalized_height(height, max_alt, min_alt) ==
    [num |-> height - min_alt, den |-> max_alt - min_alt]

\* The thresholds 0.2f, 0.35f, 0.65f and 0.85f, in hundredths.
THRESHOLD_DEN == 100
SNOW_BELOW == 20
ROCK_BELOW == 35
GRASS_BELOW == 65
SAND_BELOW == 85

\* normalized < k/100, for a finite normalized
Below(normalized, k) == normalized.num * THRESHOLD_DEN < k * normalized.den

\* The chain of tests of calculate_height_color on a finite normalized height.
HeightBand(normalized) ==
    IF Below(normalized, SNOW_BELOW) THEN "Snow"
    ELSE IF Below(normalized, ROCK_BELOW) THEN "Rock"
    ELSE IF Below(normalized, GRASS_BELOW) THEN "Grass"
    ELSE IF Below(normalized, SAND_BELOW) THEN "Sand"
    ELSE "Water"

\* The bands calculate_height_color can return.  A zero range makes
\* normalized the result of a division by zero; the build compiles with
\* -ffast-math, under which the outcome of comparing it is not fixed.
calculate_height_color(height, max_alt, min_alt) ==
    LET normalized == calculate_normalized_height(height, max_alt, min_alt)
    IN  IF normalized.den = 0 THEN Band ELSE {HeightBand(normalized)}

(* --------------------------- draw_terrain_3d -------------------------- *)

\* p * render_scale + offset, for a projected point p: the pair of fractions
\* draw_terrain_3d computes for a vertex before it inverts Y.
ViewPoint(p, scale, off_x, off_y) ==
    [x |-> [num |-> 2 * p.x * scale.num + off_x.num, den |-> 2 * scale.den],
     y |-> [num |-> 2 * p.y * scale.num + off_y.num, den |-> 2 * scale.den]]

\* if (x == ITERATIONS - 2) and if (y == ITERATIONS - 2)
\* (a faulty variant: every cell closes its border)
ClosesBorder_always(i) == TRUE
ClosesBorder(i) == i = ITERATIONS - 2

\* The band of cell (x, y): calculate_height_color of the average of its four
\* vertices (heights in quarters of a height unit), nb being what the build
\* returns where the outcome is not fixed.
CellColor(t, x, y, lo, hi, nb) ==
    LET sum == t[x][y] + t[x + 1][y] + t[x][y + 1] + t[x + 1][y + 1]
        bands == calculate_height_color(sum, 4 * hi, 4 * lo)
    IN  IF \E b \in bands : bands = {b} THEN CHOOSE b \in bands : TRUE ELSE nb

\* The DrawLineV calls of cell (x, y), each by the grid vertices it joins.
CellSegments(x, y, color) ==
    LET p1 == <<x, y>>
        p2 == <<x + 1, y>>
        p3 == <<x, y + 1>>
        p4 == <<x + 1, y + 1>>
    IN  <<[from |-> p1, to |-> p2, color |-> color],
          [from |-> p1, to |-> p3, color |-> color]>>
        \o (IF ClosesBorder(x) THEN <<[from |-> p2, to |-> p4, color |-> color]>>
            ELSE << >>)
        \o (IF ClosesBorder(y) THEN <<[from |-> p3, to |-> p4, color |-> color]>>
            ELSE << >>)

\* The inner loop over x at row y.
RECURSIVE DrawRow(_, _, _, _, _, _)
DrawRow(t, x, y, lo, hi, nb) ==
    IF x >= ITERATIONS - 1 THEN << >>
    ELSE CellSegments(x, y, CellColor(t, x, y, lo, hi, nb))
         \o DrawRow(t, x + 1, y, lo, hi, nb)

\* The outer loop over y.
RECURSIVE DrawScan(_, _, _, _, _)
DrawScan(t, y, lo, hi, nb) ==
    IF y >= ITERATIONS - 1 THEN << >>
    ELSE DrawRow(t, 0, y, lo, hi, nb) \o DrawScan(t, y + 1, lo, hi, nb)

\* What the build may return for a normalized height that is not finite.
NanOutcomes ==
    IF calculate_normalized_height(0, max_height, min_height).den = 0
    THEN Band ELSE {"none"}

draw_terrain_3d ==
    /\ pc = "draw"
    /\ \E nb \in NanOutcomes :
          /\ nan_band' = nb
          /\ segments' = DrawScan(terrain, 0, min_height, max_height, nb)
    /\ pc' = "overlay"
    /\ UNCHANGED <<terrain, min_height, max_height, viewVars, randVars, in_loop,
                   regens, genVars, calls, sweepVars>>

(* ------------------------------- main --------------------------------- *)

\* draw_reference_axes(), the three DrawText calls and EndDrawing().
draw_overlay ==
    /\ pc = "overlay"
    /\ calls' = << >>
    /\ pc' = "loop_top"
    /\ UNCHANGED <<terrain, min_height, max_height, viewVars, randVars, in_loop,
                   regens, genVars, segments, nan_band, sweepVars>>

\* WindowShouldClose() is true: CloseWindow() and return.
window_should_close ==
    /\ pc = "loop_top"
    /\ pc' = "closed"
    /\ UNCHANGED <<terrain, min_height, max_height, viewVars, randVars, in_loop,
                   regens, genVars, calls, segments, nan_band, sweepVars>>

\* IsKeyPressed(KEY_SPACE) is true.
space_pressed ==
    /\ pc = "loop_top"
    /\ regens < MaxRegens
    /\ regens' = regens + 1
    /\ in_loop' = TRUE
    /\ pc' = "reset"
    /\ UNCHANGED <<terrain, min_height, max_height, viewVars, randVars, genVars,
                   calls, segments, nan_band, sweepVars>>

\* IsKeyPressed(KEY_SPACE) is false.
no_key_pressed ==
    /\ pc = "loop_top"
    /\ in_loop' = TRUE
    /\ pc' = "draw"
    /\ UNCHANGED <<terrain, min_height, max_height, viewVars, randVars, regens,
                   genVars, calls, segments, nan_band, sweepVars>>

ZeroFrac == [num |-> 0, den |-> 1]

\* The globals are zero and main is at its first call.
MainInit ==
    /\ terrain = [x \in Index |-> [y \in Index |-> 0]]
    /\ min_height = 0
    /\ max_height = 0
    /\ render_scale = ZeroFrac
    /\ offset_x = ZeroFrac
    /\ offset_y = ZeroFrac
    /\ rand_pos = 0
    /\ pc = "reset"
    /\ in_loop = FALSE
    /\ regens = 0
    /\ length = 0
    /\ amplitude = 0
    /\ half = 0
    /\ gx = 0
    /\ gy = 0
    /\ passes = 0
    /\ writes = << >>
    /\ calls = << >>
    /\ segments = << >>
    /\ nan_band = "none"

Init ==
    /\ MainInit
    /\ rand_stream \in [0 .. (RandPeriod - 1) -> 0 .. RAND_MAX]
    /\ c_min = 0
    /\ c_max = 0
    /\ c_step = 0
    /\ c_visited = << >>

Next ==
    \/ reset_canvas_corners
    \/ generate_terrain_enter
    \/ generate_terrain_while
    \/ generate_terrain_square
    \/ generate_terrain_diamond
    \/ generate_terrain_pass_end
    \/ calculate_min_max_height
    \/ calculate_view_parameters
    \/ window_should_close
    \/ space_pressed
    \/ no_key_pressed
    \/ draw_terrain_3d
    \/ draw_overlay

Spec == Init /\ [][Next]_vars

(* ------------------------- the classifier sweep ----------------------- *)

\* calculate_height_color applied to the elevations min + j/SweepSteps of
\* the range, j = 0 .. SweepSteps, for a range min < max.
SweepInit ==
    /\ MainInit
    /\ rand_stream = [i \in 0 .. (RandPeriod - 1) |-> 0]
    /\ c_min \in (-ClassifyRange) .. ClassifyRange
    /\ c_max \in (-ClassifyRange) .. ClassifyRange
    /\ c_min < c_max
    /\ c_step = 0
    /\ c_visited = << >>

sweep_classify ==
    /\ c_step <= SweepSteps
    /\ LET elevation == c_min * SweepSteps + c_step * (c_max - c_min)
           bands == calculate_height_color(elevation, c_max * SweepSteps,
                                           c_min * SweepSteps)
           band == CHOOSE b \in bands : TRUE
       IN  c_visited' = IF c_visited # << >> /\ c_visited[Len(c_visited)] = band
                        THEN c_visited ELSE Append(c_visited, band)
    /\ c_step' = c_step + 1
    /\ UNCHANGED <<terrain, min_height, max_height, viewVars, randVars, pc,
                   in_loop, regens, genVars, calls, segments, nan_band, c_min,
                   c_max>>

SweepNext == sweep_classify

SweepSpec == SweepInit /\ [][SweepNext]_vars

(* ============================== claims ================================ *)

\* calculate_view_parameters has run on the terrain as it is now.
ViewDone == pc \in {"loop_top", "draw", "overlay", "closed"}

\* The vertex (x, y) after projection, scale and offset.
Placed(x, y) ==
    ViewPoint(isometric_projection(x, y, terrain[x][y]), render_scale, offset_x, offset_y)

\* lo <= f <= hi for a fraction f with den > 0
FracWithin(f, lo, hi) == lo * f.den <= f.num /\ f.num <= hi * f.den

\* The scaled extent of the placed vertices along an axis is exactly space.
TightX(space) ==
    \E a \in Cell, b \in Cell :
        Placed(b[1], b[2]).x.num - Placed(a[1], a[2]).x.num = space * 2 * render_scale.den
TightY(space) ==
    \E a \in Cell, b \in Cell :
        Placed(b[1], b[2]).y.num - Placed(a[1], a[2]).y.num = space * 2 * render_scale.den

\* C1: after calculate_view_parameters, every vertex, projected, scaled and
\* offset, lies in [SCREEN_MARGIN, SCREEN_WIDTH - SCREEN_MARGIN] x
\* [SCREEN_MARGIN, SCREEN_HEIGHT - SCREEN_MARGIN - UI_HEIGHT], and along one
\* of the two axes the scaled extent is exactly the available space.
C1_FitsViewport ==
    ViewDone =>
        /\ \A c \in Cell :
              /\ FracWithin(Placed(c[1], c[2]).x, SCREEN_MARGIN,
                            SCREEN_WIDTH - SCREEN_MARGIN)
              /\ FracWithin(Placed(c[1], c[2]).y, SCREEN_MARGIN,
                            SCREEN_HEIGHT - SCREEN_MARGIN - UI_HEIGHT)
        /\ \/ TightX(SCREEN_WIDTH - 2 * SCREEN_MARGIN)
           \/ TightY(SCREEN_HEIGHT - UI_HEIGHT - 2 * SCREEN_MARGIN)

\* generate_terrain has returned and the terrain is the one it left.
GenDone == pc \in {"minmax", "view", "loop_top", "draw", "overlay", "closed"}

\* generate_terrain is running.
InGenerate == pc \in {"while", "square", "diamond", "pass_end"}

Corners == {<<0, 0>>, <<0, ITERATIONS - 1>>, <<ITERATIONS - 1, 0>>,
            <<ITERATIONS - 1, ITERATIONS - 1>>}

Written == {<<writes[i].x, writes[i].y>> : i \in 1 .. Len(writes)}

\* C2: after every regeneration the four corner cells are exactly 0, and
\* generate_terrain writes no corner cell, in either phase.
C2_CornersStayZero ==
    /\ \A i \in 1 .. Len(writes) : <<writes[i].x, writes[i].y>> \notin Corners
    /\ GenDone => \A c \in Corners : terrain[c[1]][c[2]] = 0

\* A regeneration asked by SPACE has completed on a terrain that is not flat.
C2_Witness ==
    /\ pc = "minmax"
    /\ regens = MaxRegens
    /\ Len(writes) > 0
    /\ \E c \in Cell : terrain[c[1]][c[2]] # 0

(* C3 is stated with the classifier sweep, below. *)

\* 2 * INITIAL_HEIGHT * (sum over i = 0 .. k-1 of (DECAY_NUM/DECAY_DEN)^i), as
\* the fraction BoundNum(k) / BoundDen(k) of height units.
RECURSIVE Power(_, _)
Power(b, n) == IF n = 0 THEN 1 ELSE b * Power(b, n - 1)

RECURSIVE GeometricSum(_)
GeometricSum(k) ==
    IF k = 0 THEN 0
    ELSE DECAY_DEN * GeometricSum(k - 1) + Power(DECAY_NUM, k - 1)

BoundNum(k) == 2 * INITIAL_HEIGHT * HEIGHT_UNIT * GeometricSum(k)
BoundDen(k) == Power(DECAY_DEN, k - 1)

Centre == (ITERATIONS - 1) \div 2

\* C4: after generate_terrain, initial or repeated, every cell has absolute
\* value at most 2 * INITIAL_HEIGHT * sum of 2^(-ROUGHNESS * i) over the
\* passes; after the first square step the centre cell is within
\* INITIAL_HEIGHT of 0.
C4_HeightsBounded ==
    /\ GenDone =>
          \A c \in Cell :
              Abs(terrain[c[1]][c[2]]) * BoundDen(GridExponent) <= BoundNum(GridExponent)
    /\ (InGenerate /\ Len(writes) = 1) =>
          /\ <<writes[1].x, writes[1].y>> = <<Centre, Centre>>
          /\ Abs(terrain[Centre][Centre]) <= INITIAL_HEIGHT * HEIGHT_UNIT

\* A regeneration has completed with the centre at the full initial amplitude.
C4_Witness ==
    /\ pc = "minmax"
    /\ regens >= 1
    /\ Abs(terrain[Centre][Centre]) = INITIAL_HEIGHT * HEIGHT_UNIT

\* C5: on a flat terrain (min_height = max_height) calculate_height_color
\* does not divide by zero: every cell of the frame gets one defined band.
C5_FlatTerrainHasFallback ==
    (pc = "overlay" /\ min_height = max_height) =>
        \A x \in 0 .. (ITERATIONS - 2), y \in 0 .. (ITERATIONS - 2) :
            LET sum == terrain[x][y] + terrain[x + 1][y]
                       + terrain[x][y + 1] + terrain[x + 1][y + 1]
            IN  /\ calculate_normalized_height(sum, 4 * max_height, 4 * min_height).den # 0
                /\ Cardinality(calculate_height_color(sum, 4 * max_height, 4 * min_height)) = 1

Heights == {terrain[c[1]][c[2]] : c \in Cell}

Regeneration == <<"reset_canvas_corners", "generate_terrain",
                  "calculate_min_max_height", "calculate_view_parameters">>

\* C6: at every call of draw_terrain_3d, min_height and max_height are the
\* minimum and the maximum over all cells of the terrain as it is,
\* render_scale and the offsets are those of that terrain, and each
\* regeneration since the last frame ran its four steps in order and whole.
C6_FrameSeesFreshStatistics ==
    pc = "draw" =>
        /\ min_height \in Heights /\ \A h \in Heights : min_height <= h
        /\ max_height \in Heights /\ \A h \in Heights : h <= max_height
        /\ <<render_scale, offset_x, offset_y>> =
              LET v == ViewParameters(terrain)
              IN  <<v.render_scale, v.offset_x, v.offset_y>>
        /\ calls \in {<< >>, Regeneration, Regeneration \o Regeneration}

\* A frame is about to be drawn right after a regeneration asked by SPACE.
C6_Witness ==
    /\ pc = "draw"
    /\ regens = MaxRegens
    /\ calls = Regeneration
    /\ min_height < 0
    /\ max_height > 0

\* The cardinal neighbours of (x, y) at distance d that lie inside the grid.
NeighboursInGrid(x, y, d) ==
    {c \in {<<x - d, y>>, <<x + d, y>>, <<x, y - d>>, <<x, y + d>>} : c \in Cell}

OnBoundary(x, y) == x \in {0, ITERATIONS - 1} \/ y \in {0, ITERATIONS - 1}

\* C7: every cell written by the diamond phase is divided by the number of
\* its cardinal neighbours at distance step/2 inside the grid: less than 4
\* on the boundary, 4 in the interior, never 0.
C7_DivisorIsNeighbourCount ==
    \A i \in 1 .. Len(writes) :
        writes[i].phase = "diamond" =>
            LET w == writes[i]
                n == Cardinality(NeighboursInGrid(w.x, w.y, w.step \div 2))
            IN  /\ w.count = n
                /\ w.count # 0
                /\ OnBoundary(w.x, w.y) => w.count \in {2, 3}
                /\ ~OnBoundary(w.x, w.y) => w.count = 4

\* A run has divided a boundary cell by 3 and an interior cell by 4.
C7_Witness ==
    /\ pc = "minmax"
    /\ \E i \in 1 .. Len(writes) :
          writes[i].phase = "diamond" /\ writes[i].count = 3
    /\ \E i \in 1 .. Len(writes) :
          writes[i].phase = "diamond" /\ writes[i].count = 4

\* C8: within one run of generate_terrain no cell is written twice, and when
\* the run is over every cell but the four corners has been written once.
C8_EachCellWrittenOnce ==
    /\ \A i \in 1 .. Len(writes), j \in 1 .. Len(writes) :
          (writes[i].x = writes[j].x /\ writes[i].y = writes[j].y) => i = j
    /\ GenDone => Written = Cell \ Corners

\* A run is over, with cells written at more than one step size.
C8_Witness ==
    /\ pc = "minmax"
    /\ Len(writes) = ITERATIONS * ITERATIONS - 4
    /\ \E i \in 1 .. Len(writes) : writes[i].step # writes[1].step

\* The amplitude after n passes.
RECURSIVE AmplitudeAfter(_)
AmplitudeAfter(n) ==
    IF n = 0 THEN INITIAL_HEIGHT * HEIGHT_UNIT
    ELSE FDiv(AmplitudeAfter(n - 1) * DECAY_NUM, DECAY_DEN)

\* What is left of the loop of generate_terrain: the step, then the phase,
\* then the iterations of the phase.
Rank ==
    LET cells == ITERATIONS * ITERATIONS
        phase == CASE pc = "while" -> 3 * cells
                   [] pc = "square" -> 2 * cells + (cells - 1 - (gx * ITERATIONS + gy))
                   [] pc = "diamond" -> cells + (cells - 1 - (gx * ITERATIONS + gy))
                   [] OTHER -> 0
    IN  4 * cells * length + phase

LoopShape ==
    /\ InGenerate =>
          /\ length >= 1
          /\ length * Pow2(passes) = ITERATIONS - 1
          /\ amplitude = AmplitudeAfter(passes)
          /\ Rank >= 0
          /\ ENABLED Next
    /\ pc \in {"square", "diamond", "pass_end"} =>
          /\ length % 2 = 0
          /\ 2 * half = length
    /\ GenDone => length = 1 /\ passes = GridExponent

\* C9: the loop of generate_terrain terminates: the step starts at N-1, is
\* even at every pass, each pass halves it and decays the amplitude, every
\* step of the loop brings its end nearer, and the loop is left after
\* exactly GridExponent passes with the step at 1.
C9_LoopTerminates ==
    /\ []LoopShape
    /\ [][(InGenerate /\ InGenerate') => Rank' < Rank]_vars

\* The loop has been left after its last pass.
C9_Witness == pc = "minmax" /\ passes = GridExponent /\ length = 1 /\ regens >= 1

\* The pairs of adjacent grid vertices.
Edges ==
    {e \in UNION {{{a, <<a[1] + 1, a[2]>>}, {a, <<a[1], a[2] + 1>>}} : a \in Cell} :
        e \subseteq Cell}

\* C10: one call of draw_terrain_3d emits every edge between two adjacent
\* grid vertices exactly once and nothing else, 2 * N * (N - 1) segments in
\* all; the closing edges come only from the last column and the last row.
C10_EachEdgeDrawnOnce ==
    pc = "overlay" =>
        /\ Len(segments) = 2 * ITERATIONS * (ITERATIONS - 1)
        /\ \A i \in 1 .. Len(segments) : {segments[i].from, segments[i].to} \in Edges
        /\ \A e \in Edges :
              Cardinality({i \in 1 .. Len(segments) :
                              {segments[i].from, segments[i].to} = e}) = 1
        /\ \A i \in 1 .. Len(segments) :
              LET f == segments[i].from
              IN  (f[1] = ITERATIONS - 1 \/ f[2] = ITERATIONS - 1) =>
                      \/ f[1] = ITERATIONS - 1 /\ segments[i].to = <<f[1], f[2] + 1>>
                      \/ f[2] = ITERATIONS - 1 /\ segments[i].to = <<f[1] + 1, f[2]>>

\* A frame has been drawn, closing edges included.
C10_Witness ==
    /\ pc = "overlay"
    /\ \E i \in 1 .. Len(segments) : segments[i].from[1] = ITERATIONS - 1
    /\ \E i \in 1 .. Len(segments) : segments[i].from[2] = ITERATIONS - 1

\* The cells written before the i-th write of this run.
WrittenBefore(i) == {<<writes[j].x, writes[j].y>> : j \in 1 .. i - 1}

\* The cells the i-th write of this run read.
ReadBy(i) == {writes[i].reads[k] : k \in 1 .. Len(writes[i].reads)}

\* C11: in a run of generate_terrain that follows reset_canvas_corners, every
\* cell read by the square phase or the diamond phase lies inside the grid
\* and is one of the four reset corners or a cell written earlier in the same
\* run, so no value of a previous generation is read; once the run is over
\* every written cell holds the average of the cells it read, as they are in
\* the result, plus its own noise draw, so the result is fixed by the draws
\* of that run.
C11_ReadsOnlyThisRun ==
    /\ InGenerate => calls[Len(calls)] = "reset_canvas_corners"
    /\ \A i \in 1 .. Len(writes) :
          /\ ReadBy(i) \subseteq Cell
          /\ ReadBy(i) \subseteq Corners \cup WrittenBefore(i)
          /\ Len(writes[i].reads) = writes[i].count
    /\ GenDone =>
          /\ \A c \in Corners : terrain[c[1]][c[2]] = 0
          /\ \A i \in 1 .. Len(writes) :
                terrain[writes[i].x][writes[i].y] =
                    FDiv(SumAt(terrain, writes[i].reads), writes[i].count)
                        + writes[i].noise

\* A regeneration over a terrain that was not flat is over; its square phase
\* read a corner and its diamond phase read a cell of non-zero height that
\* the same run had written.
C11_Witness ==
    /\ GenDone
    /\ regens >= 1
    /\ \E i \in 1 .. Len(writes) :
          writes[i].phase = "square" /\ ReadBy(i) \cap Corners # {}
    /\ \E i \in 1 .. Len(writes) :
          /\ writes[i].phase = "diamond"
          /\ \E c \in ReadBy(i) \cap WrittenBefore(i) : terrain[c[1]][c[2]] # 0

BandOrder == <<"Snow", "Rock", "Grass", "Sand", "Water">>

\* The band the thresholds 0.20, 0.35, 0.65 and 0.85 give to t = j / SweepSteps.
BandOfStep(j) ==
    IF 100 * j < 20 * SweepSteps THEN "Snow"
    ELSE IF 100 * j < 35 * SweepSteps THEN "Rock"
    ELSE IF 100 * j < 65 * SweepSteps THEN "Grass"
    ELSE IF 100 * j < 85 * SweepSteps THEN "Sand"
    ELSE "Water"

\* C3: for min < max, as the elevation goes from min to max the bands come
\* in the order Snow, Rock, Grass, Sand, Water, none returning once left and
\* each met once the sweep is over; min is Snow and max is Water; the band
\* changes at t = 0.20, 0.35, 0.65 and 0.85.
C3_BandsInOrder ==
    /\ Len(c_visited) <= 5
    /\ \A i \in 1 .. Len(c_visited) : c_visited[i] = BandOrder[i]
    /\ c_step >= 1 => c_visited[1] = "Snow"
    /\ c_step >= 1 => c_visited[Len(c_visited)] = BandOfStep(c_step - 1)
    /\ c_step = SweepSteps + 1 => c_visited = BandOrder

\* A sweep from a negative min to a positive max is over.
C3_Witness == c_step = SweepSteps + 1 /\ c_min < 0 /\ c_max > 0 /\ Len(c_visited) = 5

=============================================================================
